---- MODULE Spec2Model ----
(***************************************************************************)
(* geosar: classification of GPS track points into solar illumination      *)
(* phases (src/src/geosar/main.py, class GPX; src/src/geosar/settings.py). *)
(*                                                                         *)
(* Time is counted in ticks of half an hour since 00:00 UTC of day 0, so   *)
(* an instant is an integer, a calendar date is instant \div Day and a     *)
(* time of day is instant % Day.  Coordinates are integers; the observer   *)
(* stores twice the median so that the mean of the two middle values of    *)
(* an even-sized sample stays an integer.                                  *)
(***************************************************************************)
EXTENDS Integers, Sequences, FiniteSets

\* ------------------------------------------------------------------ bounds
MaxTracks == 2
MaxSegs == 2
MaxPts == 2

\* --------------------------------------------------------------- constants
\* datetime.timedelta(days=1), in ticks
Day == 48
\* datetime.time(12, 0), in ticks
Noon == 24
\* the UTC offset of settings.TIMEZONE (America/New_York, standard time)
TzOffset == -10
\* None / NaT: a point without a timestamp
NaT == -1

\* settings.py
ASTRO_HORIZ == "-18"
NAUTI_HORIZ == "-12"
CIVIL_HORIZ == "-6"
SHINE_HORIZ == "0"
NIGHT == "Night"
ASTRO == "Astrological Twilight"
NAUTI == "Nautical Twilight"
CIVIL == "Civil Twilight"
SHINE == "Daytime"
PLANS == "Planning"

\* ------------------------------------------------------------------ inputs
\* The track points a file is built from, at two places: a point without a
\* timestamp, two points in the morning of day 0 and a point on day 1.
PointSet ==
    { [latitude |-> 37, longitude |-> 0,  time |-> NaT],
      [latitude |-> 37, longitude |-> 0,  time |-> 10],
      [latitude |-> 38, longitude |-> -9, time |-> 21],
      [latitude |-> 38, longitude |-> -9, time |-> 60] }

TrackNames == {"RVA to RIC"}

RECURSIVE SumLens(_)
SumLens(ss) ==
    IF ss = <<>> THEN 0 ELSE Len(Head(ss)) + SumLens(Tail(ss))

RECURSIVE SeqsUpTo(_, _)
\* the sequences over S of length at most n
SeqsUpTo(S, n) ==
    IF n = 0 THEN {<<>>}
    ELSE LET shorter == SeqsUpTo(S, n - 1)
         IN  shorter \cup { Append(s, x) : s \in shorter, x \in S }

\* a segment holds at least one point
Segments == SeqsUpTo(PointSet, MaxPts) \ {<<>>}

RECURSIVE SegLists(_, _)
\* at most k segments holding at most budget points in all
SegLists(budget, k) ==
    IF k = 0 THEN {<<>>}
    ELSE {<<>>} \cup
         UNION { { <<seg>> \o rest : rest \in SegLists(budget - Len(seg), k - 1) } :
                 seg \in { s \in Segments : Len(s) <= budget } }

TracksWith(budget) ==
    { [name |-> n, description |-> "", segments |-> ss] :
        n \in TrackNames, ss \in SegLists(budget, MaxSegs) }

RECURSIVE TrackLists(_, _)
\* at most k tracks holding at most budget points in all
TrackLists(budget, k) ==
    IF k = 0 THEN {<<>>}
    ELSE {<<>>} \cup
         UNION { { <<t>> \o rest :
                   rest \in TrackLists(budget - SumLens(t.segments), k - 1) } :
                 t \in TracksWith(budget) }

\* the parsed files: at most MaxTracks tracks and MaxPts points in all
GpxFiles == TrackLists(MaxPts, MaxTracks)

\* ------------------------------------------------------------ gpxpy facade
RECURSIVE Flatten(_)
\* the concatenation of a sequence of sequences
Flatten(ss) ==
    IF ss = <<>> THEN <<>> ELSE Head(ss) \o Flatten(Tail(ss))

\* self.walk(): every track point of the file, in traversal order
walk(gpx) == Flatten([i \in 1..Len(gpx) |-> Flatten(gpx[i].segments)])

Times(pts) == { pts[i].time : i \in 1..Len(pts) } \ {NaT}

Min(S) == CHOOSE x \in S : \A y \in S : x <= y
Max(S) == CHOOSE x \in S : \A y \in S : x >= y

\* self.get_time_bounds() (gpxpy), taken as the interface documents it:
\* the earliest and latest timestamp over all points of the file, None
\* for both when no point has one
get_time_bounds(gpx) ==
    LET ts == Times(walk(gpx))
    IN  IF ts = {} THEN [start_time |-> NaT, end_time |-> NaT]
        ELSE [start_time |-> Min(ts), end_time |-> Max(ts)]

\* datetime.date(): the calendar date of an instant
DateOf(t) == t \div Day

\* --------------------------------------------------------- ephem (external)
\* The sun as the observer sees it.  For each horizon the sun rises and
\* sets once per solar day; the solar day at the observer is Period ticks
\* (the season makes it differ from Day), and the observer's longitude
\* shifts all events in UTC.
RiseOff(horizon) ==
    CASE horizon = ASTRO_HORIZ -> 8
      [] horizon = NAUTI_HORIZ -> 10
      [] horizon = CIVIL_HORIZ -> 12
      [] horizon = SHINE_HORIZ -> 14

SetOff(horizon) ==
    CASE horizon = SHINE_HORIZ -> 34
      [] horizon = CIVIL_HORIZ -> 36
      [] horizon = NAUTI_HORIZ -> 38
      [] horizon = ASTRO_HORIZ -> 40

\* obs.lat and obs.lon hold twice the median coordinate.  At latitude 37
\* the solar day is Day ticks long; each half degree north of it makes the
\* events of the season fall one tick later per day.  Two units of
\* longitude west delay every event by one tick of UTC.
Period(obs) == Day + (obs.lat - 74)
Shift(obs) == (0 - obs.lon) \div 2

\* the risings are the instants Shift + RiseOff + k * Period, the settings
\* the instants Shift + SetOff + k * Period, k any integer

\* Observer.previous_rising(sun): the latest rising at or before obs.date
previous_rising(obs) ==
    obs.date - ((obs.date - (Shift(obs) + RiseOff(obs.horizon))) % Period(obs))

\* Observer.next_setting(sun): the earliest setting at or after obs.date
next_setting(obs) ==
    obs.date + (((Shift(obs) + SetOff(obs.horizon)) - obs.date) % Period(obs))

\* ---------------------------------------------------------------- observer
\* twice numpy.median of a non-empty sequence of integers
Median2(xs) ==
    LET n == Len(xs)
        Kth(k) == CHOOSE v \in { xs[i] : i \in 1..n } :
                    /\ Cardinality({ i \in 1..n : xs[i] < v }) < k
                    /\ Cardinality({ i \in 1..n : xs[i] <= v }) >= k
    IN  IF n % 2 = 1 THEN 2 * Kth((n + 1) \div 2)
        ELSE Kth(n \div 2) + Kth(n \div 2 + 1)

\* the attribute self.observer before _observer_init has returned
NoObserver == [lat |-> 0, lon |-> 0, date |-> NaT, horizon |-> "unset"]

\* GPX._observer_init, for a file with a point and a timestamp
observer_init(gpx) ==
    LET pts == walk(gpx)
    IN  [lat |-> Median2([i \in 1..Len(pts) |-> pts[i].latitude]),
         lon |-> Median2([i \in 1..Len(pts) |-> pts[i].longitude]),
         date |-> get_time_bounds(gpx).start_time,
         horizon |-> SHINE_HORIZ]

\* -------------------------------------------------------------- sun_events
\* the tuple `phases` of GPX.sun_events
phases ==
    << [phase |-> ASTRO, horizon |-> ASTRO_HORIZ],
       [phase |-> NAUTI, horizon |-> NAUTI_HORIZ],
       [phase |-> CIVIL, horizon |-> CIVIL_HORIZ],
       [phase |-> SHINE, horizon |-> SHINE_HORIZ] >>

\* a mutant of Anchor: the day is counted from the date the observer holds
AnchorFromObserver(obs, start_date, d) == (DateOf(obs.date) + d) * Day + Noon

\* datetime.combine(self.start_date + day * d, time(12, 0)): a naive
\* datetime, which ephem reads as UTC
Anchor(obs, start_date, d) == (start_date + d) * Day + Noon

\* GPX._sun_event: writes the horizon, then asks for the rising before and
\* the setting after the date the observer holds.  The queries leave the
\* observer's date as it was.
sun_event(obs, horizon, phase) ==
    LET o == [obs EXCEPT !.horizon = horizon]
    IN  [obs |-> o,
         row |-> [phase |-> phase,
                  rise |-> previous_rising(o),
                  set |-> next_setting(o)],
         query |-> [date |-> o.date, horizon |-> o.horizon,
                    rise |-> previous_rising(o), set |-> next_setting(o)]]

RECURSIVE SweepPhases(_, _)
\* the inner loop of sun_events from phases[i] on; acc holds the observer,
\* the list `times` and the queries made so far
SweepPhases(acc, i) ==
    IF i > Len(phases) THEN acc
    ELSE LET e == sun_event(acc.obs, phases[i].horizon, phases[i].phase)
         IN  SweepPhases([obs |-> e.obs,
                          times |-> Append(acc.times, e.row),
                          queries |-> Append(acc.queries, e.query)], i + 1)

RECURSIVE SweepDays(_, _, _, _)
\* the outer loop of sun_events from day d on, n days in all
SweepDays(acc, start_date, d, n) ==
    IF d >= n THEN acc
    ELSE LET dated == [acc EXCEPT !.obs.date = Anchor(acc.obs, start_date, d)]
         IN  SweepDays(SweepPhases(dated, 1), start_date, d + 1, n)

\* DataFrame.melt(id_vars=['phase'], var_name='direction',
\* value_name='datetime'): the rise rows, then the set rows
melt(times) ==
    [i \in 1..Len(times) |->
        [phase |-> times[i].phase, direction |-> "rise", datetime |-> times[i].rise]]
    \o
    [i \in 1..Len(times) |->
        [phase |-> times[i].phase, direction |-> "set", datetime |-> times[i].set]]

RECURSIVE Insert(_, _)
Insert(sorted, row) ==
    IF sorted = <<>> THEN <<row>>
    ELSE IF row.datetime < Head(sorted).datetime THEN <<row>> \o sorted
    ELSE <<Head(sorted)>> \o Insert(Tail(sorted), row)

RECURSIVE sort_values(_)
\* DataFrame.sort_values('datetime').reset_index(drop=True)
sort_values(rows) ==
    IF rows = <<>> THEN <<>>
    ELSE Insert(sort_values(SubSeq(rows, 1, Len(rows) - 1)), rows[Len(rows)])

\* a mutant of setting_shifts: the same pairs, brightest first
setting_shifts_reversed ==
    << [from |-> SHINE, to |-> CIVIL],
       [from |-> CIVIL, to |-> NAUTI],
       [from |-> NAUTI, to |-> ASTRO],
       [from |-> ASTRO, to |-> NIGHT] >>

\* the tuple `setting_shifts` of GPX.sun_events
setting_shifts ==
    << [from |-> ASTRO, to |-> NIGHT],
       [from |-> NAUTI, to |-> ASTRO],
       [from |-> CIVIL, to |-> NAUTI],
       [from |-> SHINE, to |-> CIVIL] >>

RECURSIVE Relabel(_, _)
\* the loop over setting_shifts from shift i on:
\* times.loc[(direction == 'set') & (phase == _from), 'phase'] = _to
Relabel(times, i) ==
    IF i > Len(setting_shifts) THEN times
    ELSE Relabel([j \in 1..Len(times) |->
                    IF times[j].direction = "set" /\ times[j].phase = setting_shifts[i].from
                    THEN [times[j] EXCEPT !.phase = setting_shifts[i].to]
                    ELSE times[j]], i + 1)

\* the property GPX.sun_events, read with the observer in state obs: the
\* observer it leaves, the queries it made, the sorted events before and
\* after relabelling.  Localizing the naive instants to UTC leaves the
\* integers as they are.
sun_events(obs, start_date, end_date) ==
    LET sweep == SweepDays([obs |-> obs, times |-> <<>>, queries |-> <<>>],
                           start_date, 0, (end_date - start_date) + 1)
        sorted == sort_values(melt(sweep.times))
    IN  [obs |-> sweep.obs,
         queries |-> sweep.queries,
         sorted |-> sorted,
         times |-> Relabel(sorted, 1)]

\* -------------------------------------------------------------- track_data
\* a mutant of parse_track: points without a timestamp are left out
parse_track_timed_only(track, index) ==
    LET pts == SelectSeq(Flatten(track.segments), LAMBDA p : p.time # NaT)
    IN  [i \in 1..Len(pts) |->
            [latitude |-> pts[i].latitude, longitude |-> pts[i].longitude,
             utc |-> pts[i].time, id |-> index,
             name |-> track.name, description |-> track.description]]

\* GPX._parse_track: one row per point of every segment of the track, with
\* the track's index, name and description
parse_track(track, index) ==
    LET pts == Flatten(track.segments)
    IN  [i \in 1..Len(pts) |->
            [latitude |-> pts[i].latitude, longitude |-> pts[i].longitude,
             utc |-> pts[i].time, id |-> index,
             name |-> track.name, description |-> track.description]]

\* pd.concat of the tracks' frames, index counting from 0 as enumerate does
concat_tracks(gpx) ==
    Flatten([i \in 1..Len(gpx) |-> parse_track(gpx[i], i - 1)])

\* a mutant of InitialPhase: every record starts as Planning
InitialPhasePlans(utc) == PLANS

\* df['phase'] = s.PLANS; df.loc[~df.utc.isnull(), 'phase'] = s.NIGHT
InitialPhase(utc) == IF utc = NaT THEN PLANS ELSE NIGHT

\* a mutant of Covers: the comparison is open
CoversOpen(utc, event) == utc # NaT /\ utc > event.datetime

\* the mask df.utc >= event.datetime; a comparison with NaT is False
Covers(utc, event) == utc # NaT /\ utc >= event.datetime

RECURSIVE Scan(_, _, _, _)
\* the loop over self.sun_events.itertuples() from event i on, for one row
Scan(utc, phase, events, i) ==
    IF i > Len(events) THEN phase
    ELSE Scan(utc, IF Covers(utc, events[i]) THEN events[i].phase ELSE phase,
              events, i + 1)

\* the columns _expand_time_info derives for one row, up to `phase`
expand_row(row, events) ==
    LET utc == row.utc
        local == IF utc = NaT THEN NaT ELSE utc + TzOffset
    IN  [latitude |-> row.latitude, longitude |-> row.longitude,
         utc |-> utc, id |-> row.id,
         name |-> row.name, description |-> row.description,
         utc_date |-> IF utc = NaT THEN NaT ELSE DateOf(utc),
         utc_time |-> IF utc = NaT THEN NaT ELSE utc % Day,
         local |-> local,
         date |-> IF utc = NaT THEN NaT ELSE DateOf(local),
         time |-> IF utc = NaT THEN NaT ELSE local % Day,
         phase |-> Scan(utc, InitialPhase(utc), events, 1)]

RECURSIVE SortedSeq(_)
\* the elements of a set of integers, ascending
SortedSeq(S) ==
    IF S = {} THEN <<>> ELSE <<Min(S)>> \o SortedSeq(S \ {Min(S)})

\* the group keys of df.groupby('id'), ascending
GroupKeys(df) == SortedSeq({ df[i].id : i \in 1..Len(df) })

\* a mutant of first: the first row of the frame, whatever its group
first_of_frame(df, id) == df[1].phase

\* groupby('id').first() for one key: the phase of the group's first row
\* (phase is never null, so no row is skipped)
first(df, id) == df[Min({ i \in 1..Len(df) : df[i].id = id })].phase

\* groupby('id').last() for one key
last(df, id) == df[Max({ i \in 1..Len(df) : df[i].id = id })].phase

\* DataFrame.merge(right, on='id'): every left row, in order, joined with
\* every right row of the same id; right carries one more column, col
merge(left, right, col) ==
    Flatten([i \in 1..Len(left) |->
        LET matches == SelectSeq(right, LAMBDA r : r.id = left[i].id)
        IN  [j \in 1..Len(matches) |->
                [f \in DOMAIN left[i] \cup {col} |->
                    IF f = col THEN matches[j][col] ELSE left[i][f]]]])

\* GPX._expand_time_info
expand_time_info(df, events) ==
    LET rows == [i \in 1..Len(df) |-> expand_row(df[i], events)]
        keys == GroupKeys(rows)
        starts == [k \in 1..Len(keys) |->
                     [id |-> keys[k], start_phase |-> first(rows, keys[k])]]
        ends == [k \in 1..Len(keys) |->
                   [id |-> keys[k], end_phase |-> last(rows, keys[k])]]
    IN  merge(merge(rows, starts, "start_phase"), ends, "end_phase")

\* a mutant of select: the rows without a timestamp, whatever is asked for
select_null(df, time) ==
    IF time = "None" THEN df
    ELSE SelectSeq(df, LAMBDA r : r.utc = NaT)

\* the tail of GPX.track_data: all rows, df.loc[~df.utc.isnull()] or
\* df.loc[df.utc.isnull()]
select(df, time) ==
    IF time = "None" THEN df
    ELSE IF time = "True" THEN SelectSeq(df, LAMBDA r : r.utc # NaT)
    ELSE SelectSeq(df, LAMBDA r : r.utc = NaT)

\* ------------------------------------------------------------------- state
VARIABLES
    gpx,         \* self._gpx_data: the parsed file
    pc,          \* "new" before GPX(gpx_file), then "ready" or "failed"
    error,       \* the exception GPX(gpx_file) raised, "" if none
    observer,    \* self.observer
    start_date,  \* self.start_date
    end_date,    \* self.end_date
    queries,     \* the observer date and horizon read by each pair of rise/set
                 \* queries of the latest evaluation of sun_events, and the
                 \* instants they returned
    sorted,      \* the local `times` of that evaluation before relabelling
    timeline,    \* the frame that evaluation returned
    out,         \* the latest frame track_data returned, per argument
    returned     \* the arguments track_data has returned for

vars == <<gpx, pc, error, observer, start_date, end_date, queries, sorted,
          timeline, out, returned>>

TimeArgs == {"None", "True", "False"}

Init ==
    /\ gpx \in GpxFiles
    /\ pc = "new"
    /\ error = ""
    /\ observer = NoObserver
    /\ start_date = NaT
    /\ end_date = NaT
    /\ queries = <<>>
    /\ sorted = <<>>
    /\ timeline = <<>>
    /\ out = [t \in TimeArgs |-> <<>>]
    /\ returned = {}

\* GPX.__init__.  With no track point numpy's median of the empty array is
\* a scalar nan and unpacking it raises TypeError; with points but no
\* timestamp the time bounds are None and ephem rejects the date with
\* ValueError.
Construct ==
    /\ pc = "new"
    /\ IF walk(gpx) = <<>>
       THEN /\ pc' = "failed"
            /\ error' = "TypeError"
            /\ UNCHANGED <<observer, start_date, end_date>>
       ELSE IF get_time_bounds(gpx).start_time = NaT
       THEN /\ pc' = "failed"
            /\ error' = "ValueError"
            /\ UNCHANGED <<observer, start_date, end_date>>
       ELSE /\ pc' = "ready"
            /\ observer' = observer_init(gpx)
            /\ start_date' = DateOf(get_time_bounds(gpx).start_time)
            /\ end_date' = DateOf(get_time_bounds(gpx).end_time)
            /\ UNCHANGED error
    /\ UNCHANGED <<gpx, queries, sorted, timeline, out, returned>>

\* a caller reads the property GPX.sun_events
SunEvents ==
    /\ pc = "ready"
    /\ \E r \in {sun_events(observer, start_date, end_date)} :
           /\ observer' = r.obs
           /\ queries' = r.queries
           /\ sorted' = r.sorted
           /\ timeline' = r.times
    /\ UNCHANGED <<gpx, pc, error, start_date, end_date, out, returned>>

\* GPX.track_data(time)
TrackData(time) ==
    /\ pc = "ready"
    /\ \E r \in {sun_events(observer, start_date, end_date)} :
           /\ observer' = r.obs
           /\ queries' = r.queries
           /\ sorted' = r.sorted
           /\ timeline' = r.times
           /\ out' = [out EXCEPT ![time] =
                        select(expand_time_info(concat_tracks(gpx), timeline'), time)]
    /\ returned' = returned \cup {time}
    /\ UNCHANGED <<gpx, pc, error, start_date, end_date>>

Next ==
    \/ Construct
    \/ SunEvents
    \/ \E time \in TimeArgs : TrackData(time)

Spec == Init /\ [][Next]_vars

\* ------------------------------------------------------------- properties
Rows(t) == { out[t][i] : i \in 1..Len(out[t]) }

AllRows == UNION { Rows(t) : t \in returned }

Instants == { timeline[j].datetime : j \in 1..Len(timeline) }

\* C1: a record with a timestamp t that some breakpoint does not exceed
\* carries the label of a breakpoint at the latest instant <= t; the
\* comparison is closed, so a record exactly on a breakpoint carries that
\* breakpoint's label.
C1_LatestBreakpoint ==
    \A r \in AllRows :
        (r.utc # NaT /\ \E b \in Instants : b <= r.utc) =>
            \E j \in 1..Len(timeline) :
                /\ timeline[j].datetime <= r.utc
                /\ timeline[j].phase = r.phase
                /\ \A b \in Instants : b <= r.utc => b <= timeline[j].datetime

\* a record exactly on a breakpoint of a two-day timeline, labelled by it
C1_Witness ==
    /\ Len(timeline) > 8
    /\ \E r \in AllRows : \E j \in 1..Len(timeline) :
          /\ r.utc = timeline[j].datetime
          /\ r.phase = timeline[j].phase
          /\ \E k \in 1..Len(timeline) : timeline[k].datetime > r.utc

PrecedesTimeline(r) == r.utc # NaT /\ \A b \in Instants : r.utc < b

\* C2 as stated: a record without a timestamp, or with one before the first
\* breakpoint, is labelled Planning.
C2_PlanningBeforeFirst ==
    \A r \in AllRows :
        (r.utc = NaT \/ PrecedesTimeline(r)) => r.phase = PLANS

\* C2 amended: a record without a timestamp is labelled Planning; a record
\* whose timestamp precedes the first breakpoint is labelled Night.
C2_NightBeforeFirst ==
    \A r \in AllRows :
        /\ r.utc = NaT => r.phase = PLANS
        /\ PrecedesTimeline(r) => r.phase = NIGHT

\* a frame with an untimestamped record and a record before the first
\* breakpoint
C2_Witness ==
    /\ \E r \in AllRows : r.utc = NaT /\ r.phase = PLANS
    /\ \E r \in AllRows : PrecedesTimeline(r) /\ r.phase = NIGHT

\* C3: in the frame of track_data(), every record carries as start_phase
\* the phase of the first record of its track and as end_phase the phase
\* of the last, in record order; a track without timestamps has Planning
\* for both.
C3_StartEndPhase ==
    "None" \in returned =>
        LET df == out["None"]
        IN  \A i \in 1..Len(df) :
              LET own == { j \in 1..Len(df) : df[j].id = df[i].id }
              IN  /\ \E a \in own : /\ \A j \in own : a <= j
                                    /\ df[i].start_phase = df[a].phase
                  /\ \E b \in own : /\ \A j \in own : j <= b
                                    /\ df[i].end_phase = df[b].phase
                  /\ (\A j \in own : df[j].utc = NaT) =>
                        df[i].start_phase = PLANS /\ df[i].end_phase = PLANS

\* a track recorded out of chronological order whose first and last
\* records differ in phase
C3_Witness ==
    /\ "None" \in returned
    /\ \E i, j \in 1..Len(out["None"]) :
          LET df == out["None"]
          IN  /\ i < j
              /\ df[i].id = df[j].id
              /\ df[i].utc # NaT /\ df[j].utc # NaT /\ df[i].utc > df[j].utc
              /\ df[i].start_phase = df[i].phase
              /\ df[i].end_phase = df[j].phase
              /\ df[i].phase # df[j].phase

\* the points of the tracks before track k (k counted from 1)
PointsBefore(k) == Len(walk(SubSeq(gpx, 1, k - 1)))

\* C4: track_data() returns one record per track point, in traversal
\* order, each with the point's coordinates and timestamp (null when the
\* point has none) and the 0-based index of its track.
C4_OneRecordPerPoint ==
    "None" \in returned =>
        LET df == out["None"]
            pts == walk(gpx)
        IN  /\ Len(df) = Len(pts)
            /\ \A i \in 1..Len(df) :
                  /\ df[i].utc = pts[i].time
                  /\ df[i].latitude = pts[i].latitude
                  /\ df[i].longitude = pts[i].longitude
                  /\ \E k \in 1..Len(gpx) :
                        /\ PointsBefore(k) < i
                        /\ i <= PointsBefore(k + 1)
                        /\ df[i].id = k - 1

\* two tracks of the same name, one of them with an untimestamped point
C4_Witness ==
    /\ "None" \in returned
    /\ \E i, j \in 1..Len(out["None"]) :
          LET df == out["None"]
          IN  /\ df[i].id = 0 /\ df[j].id = 1
              /\ df[i].name = df[j].name
              /\ df[i].utc = NaT \/ df[j].utc = NaT

CountOf(t, id) == Cardinality({ i \in 1..Len(out[t]) : out[t][i].id = id })

TrackTimes(k) ==
    LET pts == walk(<<gpx[k]>>) IN [i \in 1..Len(pts) |-> pts[i].time]

\* C5: per track, the rows of track_data(None) are as many as those of
\* track_data(True) and track_data(False) together; True holds the track's
\* timestamped points and only those, False the untimestamped ones.
C5_Partition ==
    returned = TimeArgs =>
        \A k \in 1..Len(gpx) :
            /\ CountOf("None", k - 1) = CountOf("True", k - 1) + CountOf("False", k - 1)
            /\ CountOf("True", k - 1) =
                  Len(SelectSeq(TrackTimes(k), LAMBDA t : t # NaT))
            /\ CountOf("False", k - 1) =
                  Len(SelectSeq(TrackTimes(k), LAMBDA t : t = NaT))
            /\ \A r \in Rows("True") : r.utc # NaT
            /\ \A r \in Rows("False") : r.utc = NaT

\* a track with a timestamped and an untimestamped point, asked for all
\* three ways
C5_Witness ==
    /\ returned = TimeArgs
    /\ \E r \in Rows("True") : \E q \in Rows("False") : r.id = q.id

\* C6 as stated: the timeline is strictly ascending in instant and holds 8
\* breakpoints per day from start_date to end_date.
C6_StrictlySorted ==
    timeline # <<>> =>
        /\ Len(timeline) = 8 * ((end_date - start_date) + 1)
        /\ \A i, j \in 1..Len(timeline) :
              i < j => timeline[i].datetime < timeline[j].datetime

\* C7 as stated: constructing the analysis of a file without track points
\* fails with InsufficientDataError and leaves no observer and no timeline.
C7_InsufficientData ==
    (pc # "new" /\ walk(gpx) = <<>>) =>
        /\ pc = "failed"
        /\ error = "InsufficientDataError"
        /\ observer = NoObserver
        /\ timeline = <<>>

Darker(phase) ==
    CASE phase = SHINE -> CIVIL
      [] phase = CIVIL -> NAUTI
      [] phase = NAUTI -> ASTRO
      [] phase = ASTRO -> NIGHT

\* C8: relabelling keeps every event's instant, direction and position;
\* a rise event keeps its phase and a set event takes the next darker
\* phase of the horizon it was computed for, one step only.
C8_RelabelOnce ==
    timeline # <<>> =>
        /\ Len(timeline) = Len(sorted)
        /\ \A i \in 1..Len(timeline) :
              /\ timeline[i].datetime = sorted[i].datetime
              /\ timeline[i].direction = sorted[i].direction
              /\ sorted[i].phase \in {ASTRO, NAUTI, CIVIL, SHINE}
              /\ timeline[i].direction = "rise" => timeline[i].phase = sorted[i].phase
              /\ timeline[i].direction = "set" =>
                    timeline[i].phase = Darker(sorted[i].phase)

\* a timeline in which the setting at the Daytime horizon is labelled Civil
\* and a rising has kept its label
C8_Witness ==
    /\ \E i \in 1..Len(timeline) :
          /\ sorted[i].direction = "set" /\ sorted[i].phase = SHINE
          /\ timeline[i].phase = CIVIL
    /\ \E i \in 1..Len(timeline) :
          /\ sorted[i].direction = "rise" /\ timeline[i].phase = sorted[i].phase

\* 12:00 of a calendar day in settings.TIMEZONE, as a UTC instant
LocalNoon(date) == date * Day + Noon - TzOffset

\* C9 as stated: the queries of day d are anchored at 12:00 local time of
\* day d, and the rising and setting they return bracket the anchor.
C9_LocalNoonAnchor ==
    \A i \in 1..Len(queries) :
        /\ queries[i].date = LocalNoon(start_date + ((i - 1) \div Len(phases)))
        /\ queries[i].rise <= queries[i].date
        /\ queries[i].date <= queries[i].set

\* C10: every pair of queries reads the date and the horizon sun_events
\* wrote for it in the same evaluation, and a further call of sun_events
\* or track_data returns what the earlier calls returned.
C10_Stateless ==
    [][ /\ \A i \in 1..Len(queries') :
              /\ queries'[i].date =
                    (start_date + ((i - 1) \div Len(phases))) * Day + Noon
              /\ queries'[i].horizon = phases[((i - 1) % Len(phases)) + 1].horizon
        /\ timeline # <<>> => timeline' = timeline
        /\ \A t \in returned : out'[t] = out[t] ]_vars

\* every result has been returned over a mission of two days, and the
\* observer holds the last swept date and horizon, not those it was
\* constructed with
C10_Witness ==
    /\ returned = TimeArgs
    /\ Len(timeline) > 8
    /\ observer.date = end_date * Day + Noon
    /\ observer.date # observer_init(gpx).date
    /\ observer.horizon = SHINE_HORIZ

====
